---- MODULE Spec2Model ----
(***************************************************************************)
(* A model of src/core/colour_module.py: the Colour enum of ANSI escape    *)
(* codes, its scalar applicator (Colour.__call__), the composite           *)
(* applicator (Colour.styled) and the LIST / TUPLE / DICT / TARGET /       *)
(* RANDOM formatters.                                                      *)
(*                                                                         *)
(* A Python str is a sequence of one-character strings; the escape         *)
(* character \033 is the character "ESC".  A caller prepares the arguments *)
(* of one call (pc "idle" -> "ready"), the called method runs as one step  *)
(* (pc "ready" -> "done") and the caller drops the result (-> "idle").     *)
(*                                                                         *)
(* The enum semantics are those of Python 3.13 and later (the module needs *)
(* at least 3.12 for its nested f-string quotes): a class defined in the   *)
(* body of an Enum is a plain attribute of it, never a member.             *)
(***************************************************************************)
EXTENDS Integers, Sequences, FiniteSets, TLC

VARIABLES pc, op, colour, others, text, items, indices, mapping, keys, values,
          target, pool, via, drawn, fmt, targs, result

vars == <<pc, op, colour, others, text, items, indices, mapping, keys, values,
          target, pool, via, drawn, fmt, targs, result>>

(***************************************************************************)
(* Bounds of the inputs a caller draws.                                    *)
(***************************************************************************)
MaxParts == 2
MaxInt == 11
MaxOthers == 2
MaxLen == 3
MaxIdx == 2
MaxEntries == 2
MaxFilter == 2
MaxTargets == 2
MaxText == 3
MaxPool == 2
MaxRand == 2

(***************************************************************************)
(* Generic helpers on sequences.                                           *)
(***************************************************************************)
Range(q) == {q[i] : i \in DOMAIN q}

RECURSIVE Flatten(_)
Flatten(qq) == IF qq = <<>> THEN <<>> ELSE Head(qq) \o Flatten(Tail(qq))

RECURSIVE Join(_, _)
Join(sep, qq) ==
    IF qq = <<>> THEN <<>>
    ELSE IF Len(qq) = 1 THEN Head(qq)
    ELSE Head(qq) \o sep \o Join(sep, Tail(qq))

SeqsUpTo(S, n) == UNION {[1..k -> S] : k \in 0..n}

\* the sequences without repetition of at most n elements of S
DistinctSeqsUpTo(S, n) ==
    {q \in SeqsUpTo(S, n) : \A i, j \in DOMAIN q : i # j => q[i] # q[j]}

CountOcc(sub, s) ==
    Cardinality({i \in 1..(Len(s) - Len(sub) + 1) :
                    SubSeq(s, i, i + Len(sub) - 1) = sub})

EndsWith(s, suf) ==
    /\ Len(s) >= Len(suf)
    /\ SubSeq(s, Len(s) - Len(suf) + 1, Len(s)) = suf

(***************************************************************************)
(* The Colour enum: member names in declaration order and their values.    *)
(***************************************************************************)
ESC == "ESC"

Members ==
    << "RED", "GREEN", "YELLOW", "BLUE", "CYAN", "MAGENTA", "WHITE", "BLACK",
       "LIGHTRED", "LIGHTGREEN", "LIGHTYELLOW", "LIGHTBLUE", "LIGHTMAGENTA",
       "LIGHTCYAN", "GREY",
       "BG_RED", "BG_GREEN", "BG_YELLOW", "BG_BLUE", "BG_CYAN", "BG_MAGENTA",
       "BG_WHITE", "BG_BLACK", "BG_LIGHTRED", "BG_LIGHTGREEN",
       "BG_LIGHTYELLOW", "BG_LIGHTBLUE", "BG_LIGHTMAGENTA", "BG_LIGHTCYAN",
       "BG_GREY",
       "BRIGHT", "DIM", "NORMAL", "RESET" >>

Styles == Range(Members)

\* the digits between "\033[" and "m" in each member's value
CodeDigits ==
    [ RED |-> <<"3","1">>, GREEN |-> <<"3","2">>, YELLOW |-> <<"3","3">>,
      BLUE |-> <<"3","4">>, CYAN |-> <<"3","6">>, MAGENTA |-> <<"3","5">>,
      WHITE |-> <<"3","7">>, BLACK |-> <<"3","0">>,
      LIGHTRED |-> <<"9","1">>, LIGHTGREEN |-> <<"9","2">>,
      LIGHTYELLOW |-> <<"9","3">>, LIGHTBLUE |-> <<"9","4">>,
      LIGHTMAGENTA |-> <<"9","5">>, LIGHTCYAN |-> <<"9","6">>,
      GREY |-> <<"9","0">>,
      BG_RED |-> <<"4","1">>, BG_GREEN |-> <<"4","2">>,
      BG_YELLOW |-> <<"4","3">>, BG_BLUE |-> <<"4","4">>,
      BG_CYAN |-> <<"4","6">>, BG_MAGENTA |-> <<"4","5">>,
      BG_WHITE |-> <<"4","7">>, BG_BLACK |-> <<"4","0">>,
      BG_LIGHTRED |-> <<"1","0","1">>, BG_LIGHTGREEN |-> <<"1","0","2">>,
      BG_LIGHTYELLOW |-> <<"1","0","3">>, BG_LIGHTBLUE |-> <<"1","0","4">>,
      BG_LIGHTMAGENTA |-> <<"1","0","5">>, BG_LIGHTCYAN |-> <<"1","0","6">>,
      BG_GREY |-> <<"1","0","0">>,
      BRIGHT |-> <<"1">>, DIM |-> <<"2">>, NORMAL |-> <<"2","2">>,
      RESET |-> <<"0">> ]

\* member.value
Value(m) == <<ESC, "[">> \o CodeDigits[m] \o <<"m">>

ResetCode == Value("RESET")

\* the styles the collection formatters are exercised with
SampleStyles == {"RED", "BG_LIGHTBLUE", "BRIGHT"}

(***************************************************************************)
(* Python values passed as payloads.  kind is type(v).__name__; s holds a  *)
(* str, n an int (a bool as 0/1, a float as its number of tenths), elems   *)
(* the str elements of a list or tuple.                                    *)
(***************************************************************************)
PyVal(k, s, n, e) == [kind |-> k, s |-> s, n |-> n, elems |-> e]
StrV(s) == PyVal("str", s, 0, <<>>)
IntV(n) == PyVal("int", <<>>, n, <<>>)
FloatV(tenths) == PyVal("float", <<>>, tenths, <<>>)
BoolV(b) == PyVal("bool", <<>>, IF b THEN 1 ELSE 0, <<>>)
NoneV == PyVal("NoneType", <<>>, 0, <<>>)
ListV(e) == PyVal("list", <<>>, 0, e)
TupleV(e) == PyVal("tuple", <<>>, 0, e)
DictV == PyVal("dict", <<>>, 0, <<>>)

\* the pieces a caller's strings are put together from: plain characters,
\* a lone escape character, and whole escape codes (text styled before)
Pieces ==
    { <<"a">>, <<"A">>, <<"1">>, <<ESC>>, <<"m">>, ResetCode, Value("RED") }

Strings == {Flatten(q) : q \in SeqsUpTo(Pieces, MaxParts)}

PlainWords == { <<"a">>, <<"b">> }

ScalarValues ==
    {StrV(s) : s \in Strings}
        \cup {IntV(n) : n \in (-MaxInt)..MaxInt}
        \cup {FloatV(n) : n \in (-MaxInt)..MaxInt}
        \cup {BoolV(b) : b \in BOOLEAN}
        \cup {NoneV}

OtherValues ==
    {ListV(e) : e \in SeqsUpTo(PlainWords, MaxLen)}
        \cup {TupleV(e) : e \in SeqsUpTo(PlainWords, MaxLen)}
        \cup {DictV}

Payloads == ScalarValues \cup OtherValues

(***************************************************************************)
(* str(v) and type(v).__name__                                             *)
(***************************************************************************)
Digit == <<"0", "1", "2", "3", "4", "5", "6", "7", "8", "9">>

RECURSIVE NatStr(_)
NatStr(n) ==
    IF n < 10 THEN <<Digit[n + 1]>>
    ELSE NatStr(n \div 10) \o <<Digit[(n % 10) + 1]>>

IntStr(n) == IF n < 0 THEN <<"-">> \o NatStr(-n) ELSE NatStr(n)

\* repr of a float that is a whole number of tenths (below 1e16)
FloatStr(t) ==
    LET a == IF t < 0 THEN -t ELSE t
    IN  (IF t < 0 THEN <<"-">> ELSE <<>>)
            \o NatStr(a \div 10) \o <<".">> \o <<Digit[(a % 10) + 1]>>

\* repr of a str of plain characters
ReprStr(s) == <<"'">> \o s \o <<"'">>

ListStr(e) ==
    <<"[">> \o Join(<<",", " ">>, [i \in DOMAIN e |-> ReprStr(e[i])]) \o <<"]">>

TupleStr(e) ==
    IF Len(e) = 1 THEN <<"(">> \o ReprStr(e[1]) \o <<",", ")">>
    ELSE <<"(">> \o Join(<<",", " ">>, [i \in DOMAIN e |-> ReprStr(e[i])])
            \o <<")">>

PyStr(v) ==
    CASE v.kind = "str" -> v.s
      [] v.kind = "int" -> IntStr(v.n)
      [] v.kind = "float" -> FloatStr(v.n)
      [] v.kind = "bool" ->
            IF v.n = 1 THEN <<"T","r","u","e">> ELSE <<"F","a","l","s","e">>
      [] v.kind = "NoneType" -> <<"N","o","n","e">>
      [] v.kind = "list" -> ListStr(v.elems)
      [] v.kind = "tuple" -> TupleStr(v.elems)
      [] v.kind = "dict" -> <<"{", "}">>

TypeName(v) ==
    CASE v.kind = "str" -> <<"s","t","r">>
      [] v.kind = "int" -> <<"i","n","t">>
      [] v.kind = "float" -> <<"f","l","o","a","t">>
      [] v.kind = "bool" -> <<"b","o","o","l">>
      [] v.kind = "NoneType" -> <<"N","o","n","e","T","y","p","e">>
      [] v.kind = "list" -> <<"l","i","s","t">>
      [] v.kind = "tuple" -> <<"t","u","p","l","e">>
      [] v.kind = "dict" -> <<"d","i","c","t">>

(***************************************************************************)
(* What a call gives back: a returned value or a raised exception.         *)
(***************************************************************************)
Outcome(ok, exc, msg, type, str, seq, map) ==
    [ok |-> ok, exc |-> exc, msg |-> msg, type |-> type,
     str |-> str, seq |-> seq, map |-> map]

NoResult == Outcome(TRUE, "", <<>>, "none", <<>>, <<>>, <<>>)
RetStr(s) == Outcome(TRUE, "", <<>>, "str", s, <<>>, <<>>)
RetSeq(type, q) == Outcome(TRUE, "", <<>>, type, <<>>, q, <<>>)
RetMap(m) == Outcome(TRUE, "", <<>>, "dict", <<>>, <<>>, m)
Raise(exc, msg) == Outcome(FALSE, exc, msg, "none", <<>>, <<>>, <<>>)

Returned(r) == r.ok /\ r.type # "none"

(***************************************************************************)
(* Colour.__call__ and Colour.styled                                       *)
(***************************************************************************)
\* isinstance(text, (str, int, float, bool, type(None)))
IsAcceptedType(v) == v.kind \in {"str", "int", "float", "bool", "NoneType"}

UnsupportedTypeMsg(v) ==
    <<"U","n","s","u","p","p","o","r","t","e","d"," ","t","y","p","e",":"," ">>
        \o TypeName(v)

Colour_call_NoCheck(self, v) ==
    RetStr(Value(self) \o PyStr(v) \o ResetCode)

Colour_call_NoReset(self, v) ==
    IF ~IsAcceptedType(v)
    THEN Raise("ColourFormatError", UnsupportedTypeMsg(v))
    ELSE RetStr(Value(self) \o PyStr(v))

Colour_call(self, v) ==
    IF ~IsAcceptedType(v)
    THEN Raise("ColourFormatError", UnsupportedTypeMsg(v))
    ELSE RetStr(Value(self) \o PyStr(v) \o ResetCode)

\* ''.join(member.value for member in (self, *others)), each style once
Colour_styled_Dedup(self, more, v) ==
    LET all == <<self>> \o more
        firsts == {i \in DOMAIN all : \A j \in 1..(i - 1) : all[j] # all[i]}
    IN  RetStr(Flatten([i \in DOMAIN all |->
                            IF i \in firsts THEN Value(all[i]) ELSE <<>>])
                \o PyStr(v) \o ResetCode)

Colour_styled(self, more, v) ==
    LET all == <<self>> \o more
        codes == Flatten([i \in DOMAIN all |-> Value(all[i])])
    IN  RetStr(codes \o PyStr(v) \o ResetCode)

(***************************************************************************)
(* The state: the caller's position, the method called, its arguments, the *)
(* _TargetFormatter object the caller holds, and the outcome of the call.  *)
(***************************************************************************)
\* an optional argument: given = FALSE is Python's None default
Absent == [given |-> FALSE, val |-> <<>>]
Given(q) == [given |-> TRUE, val |-> q]

NoFormatter == [made |-> FALSE, colour |-> "none", targets |-> {}]
NoTargetArgs == [colour |-> "none", lits |-> <<>>]

Init ==
    /\ pc = "idle"
    /\ op = "none"
    /\ colour = "none"
    /\ others = <<>>
    /\ text = NoneV
    /\ items = <<>>
    /\ indices = Absent
    /\ mapping = <<>>
    /\ keys = Absent
    /\ values = Absent
    /\ target = "value"
    /\ pool = Absent
    /\ via = "none"
    /\ drawn = "none"
    /\ fmt = NoFormatter
    /\ targs = NoTargetArgs
    /\ result = NoResult

\* the caller drops the outcome and its arguments; a formatter object it
\* built with TARGET stays in its hands
Return ==
    /\ pc = "done"
    /\ pc' = "idle"
    /\ op' = "none"
    /\ colour' = "none"
    /\ others' = <<>>
    /\ text' = NoneV
    /\ items' = <<>>
    /\ indices' = Absent
    /\ mapping' = <<>>
    /\ keys' = Absent
    /\ values' = Absent
    /\ target' = "value"
    /\ pool' = Absent
    /\ via' = "none"
    /\ drawn' = "none"
    /\ result' = NoResult
    /\ UNCHANGED <<fmt, targs>>

\* what a method call leaves alone: every argument object of the caller
args == <<op, colour, others, text, items, indices, mapping, keys, values,
          target, pool, via, targs>>

(***************************************************************************)
(* Colour.X(text) and Colour.X.styled(text, *others)                       *)
(***************************************************************************)
InvokeCall ==
    /\ pc = "idle"
    /\ \E c \in Styles, v \in Payloads :
          /\ colour' = c
          /\ text' = v
    /\ pc' = "ready"
    /\ op' = "__call__"
    /\ UNCHANGED <<others, items, indices, mapping, keys, values, target,
                   pool, via, drawn, fmt, targs, result>>

ExecCall ==
    /\ pc = "ready"
    /\ op = "__call__"
    /\ result' = Colour_call(colour, text)
    /\ pc' = "done"
    /\ UNCHANGED <<args, drawn, fmt>>

InvokeStyled ==
    /\ pc = "idle"
    /\ \E c \in SampleStyles, more \in SeqsUpTo(SampleStyles, MaxOthers),
          v \in Payloads :
          /\ colour' = c
          /\ others' = more
          /\ text' = v
    /\ pc' = "ready"
    /\ op' = "styled"
    /\ UNCHANGED <<items, indices, mapping, keys, values, target,
                   pool, via, drawn, fmt, targs, result>>

ExecStyled ==
    /\ pc = "ready"
    /\ op = "styled"
    /\ result' = Colour_styled(colour, others, text)
    /\ pc' = "done"
    /\ UNCHANGED <<args, drawn, fmt>>

NextScalar == InvokeCall \/ ExecCall \/ InvokeStyled \/ ExecStyled \/ Return

SpecScalar == Init /\ [][NextScalar]_vars

(***************************************************************************)
(* Claims about the scalar and the composite applicator (SpecScalar).      *)
(***************************************************************************)
\* the payload kinds the specification lists as accepted
AcceptedKinds == {"NoneType", "bool", "int", "float", "str"}

CallDone == pc = "done" /\ op = "__call__"

\* C1 as stated: for every style and every payload of an accepted kind the
\* scalar applicator returns code(style) + str(v) + reset, and the reset code
\* occurs in the returned string exactly once, as its suffix.
C1_ResetOccursOnce ==
    (CallDone /\ text.kind \in AcceptedKinds) =>
        /\ result = RetStr(Value(colour) \o PyStr(text) \o ResetCode)
        /\ EndsWith(result.str, ResetCode)
        /\ CountOcc(ResetCode, result.str) = 1

\* C1 as amended: for every style and every payload of an accepted kind the
\* scalar applicator returns exactly code(style) + str(v) + reset, so the
\* reset code is its suffix; the reset code occurs in the returned string
\* exactly once if and only if the style is not RESET and str(v) does not
\* itself contain the reset code.
C1_ApplyFormat ==
    (CallDone /\ text.kind \in AcceptedKinds) =>
        /\ result = RetStr(Value(colour) \o PyStr(text) \o ResetCode)
        /\ EndsWith(result.str, ResetCode)
        /\ (CountOcc(ResetCode, result.str) = 1) <=>
              (colour # "RESET" /\ CountOcc(ResetCode, PyStr(text)) = 0)

\* Colour.BRIGHT(-0.5) has returned "\033[1m-0.5\033[0m"
C1_Witness ==
    /\ CallDone
    /\ colour = "BRIGHT"
    /\ text = FloatV(-5)
    /\ result.ok
    /\ result.str = <<ESC, "[", "1", "m", "-", "0", ".", "5", ESC, "[", "0", "m">>

\* C2: for every style and every payload whose kind is not one of the five
\* accepted kinds, the scalar applicator raises ColourFormatError with the
\* message "Unsupported type: <kind>" and returns no string.
C2_UnsupportedRejected ==
    (CallDone /\ text.kind \notin AcceptedKinds) =>
        /\ ~result.ok
        /\ result.exc = "ColourFormatError"
        /\ result.msg =
              <<"U","n","s","u","p","p","o","r","t","e","d"," ",
                "t","y","p","e",":"," ">> \o TypeName(text)
        /\ result.type = "none"
        /\ result.str = <<>>

\* Colour.RED(["a"]) has raised ColourFormatError("Unsupported type: list")
C2_Witness ==
    /\ CallDone
    /\ colour = "RED"
    /\ text = ListV(<< <<"a">> >>)
    /\ ~result.ok
    /\ result.exc = "ColourFormatError"
    /\ result.msg =
          <<"U","n","s","u","p","p","o","r","t","e","d"," ",
            "t","y","p","e",":"," ","l","i","s","t">>

RECURSIVE CodesInOrder(_)
CodesInOrder(ss) ==
    IF ss = <<>> THEN <<>> ELSE Value(Head(ss)) \o CodesInOrder(Tail(ss))

\* C3: styled(s1, v, s2, ..., sn) returns code(s1) + code(s2) + ... +
\* code(sn) in the order given, repeated styles kept, followed by str(v),
\* followed by one reset code and nothing more.
C3_StyledOrder ==
    (pc = "done" /\ op = "styled") =>
        /\ result.ok
        /\ result.type = "str"
        /\ result.str =
              CodesInOrder(<<colour>> \o others) \o PyStr(text) \o ResetCode
        /\ Len(result.str) =
              Len(CodesInOrder(<<colour>> \o others)) + Len(PyStr(text))
                  + Len(ResetCode)

\* Colour.RED.styled("a", Colour.BRIGHT, Colour.RED) has returned
\* "\033[31m\033[1m\033[31ma\033[0m"
C3_Witness ==
    /\ pc = "done"
    /\ op = "styled"
    /\ colour = "RED"
    /\ others = <<"BRIGHT", "RED">>
    /\ text = StrV(<<"a">>)
    /\ result.str =
          <<ESC, "[", "3", "1", "m", ESC, "[", "1", "m",
            ESC, "[", "3", "1", "m", "a", ESC, "[", "0", "m">>

(***************************************************************************)
(* Colour._ListFormatter.__call__ and Colour._TupleFormatter.__call__      *)
(***************************************************************************)
AllStr(xs) == \A i \in DOMAIN xs : xs[i].kind = "str"

\* idx < 0 or idx >= len(items)
IndexOutOfRange(idx, xs) == idx < 0 \/ idx >= Len(xs)

BadPositions(idxs, xs) ==
    {j \in DOMAIN idxs : IndexOutOfRange(idxs[j], xs)}

FirstBadIndex(idxs, xs) ==
    idxs[CHOOSE j \in BadPositions(idxs, xs) :
            \A k \in BadPositions(idxs, xs) : j <= k]

IndexMsg(idx) ==
    <<"I","n","d","e","x"," ">> \o IntStr(idx)
        \o <<" ","o","u","t"," ","o","f"," ","r","a","n","g","e",".">>

\* [self.colour(i) if idx in indices else i for idx, i in enumerate(items)]
StyleSelected(self, xs, idxs) ==
    [i \in DOMAIN xs |->
        IF (i - 1) \in Range(idxs) THEN Colour_call(self, xs[i]).str
        ELSE xs[i].s]

\* [self.colour(i) for i in items]
StyleAll(self, xs) == [i \in DOMAIN xs |-> Colour_call(self, xs[i]).str]

ListFormatter_call_OneBased(self, xs, idxs) ==
    IF ~AllStr(xs)
    THEN Raise("ColourFormatError",
               <<"A","l","l"," ","l","i","s","t"," ","i","t","e","m","s"," ",
                 "m","u","s","t"," ","b","e"," ","s","t","r","i","n","g","s",
                 ".">>)
    ELSE IF ~idxs.given THEN RetSeq("list", StyleAll(self, xs))
    ELSE IF BadPositions(idxs.val, xs) # {}
    THEN Raise("ListIndexOutOfRange", IndexMsg(FirstBadIndex(idxs.val, xs)))
    ELSE RetSeq("list",
                [i \in DOMAIN xs |->
                    IF i \in Range(idxs.val) THEN Colour_call(self, xs[i]).str
                    ELSE xs[i].s])

ListFormatter_call_LaxBound(self, xs, idxs) ==
    IF ~AllStr(xs)
    THEN Raise("ColourFormatError",
               <<"A","l","l"," ","l","i","s","t"," ","i","t","e","m","s"," ",
                 "m","u","s","t"," ","b","e"," ","s","t","r","i","n","g","s",
                 ".">>)
    ELSE IF ~idxs.given THEN RetSeq("list", StyleAll(self, xs))
    ELSE IF \E j \in DOMAIN idxs.val :
                idxs.val[j] < 0 \/ idxs.val[j] > Len(xs)
    THEN Raise("ListIndexOutOfRange",
               IndexMsg(idxs.val[CHOOSE j \in DOMAIN idxs.val :
                                    idxs.val[j] < 0 \/ idxs.val[j] > Len(xs)]))
    ELSE RetSeq("list", StyleSelected(self, xs, idxs.val))

ListFormatter_call(self, xs, idxs) ==
    IF ~AllStr(xs)
    THEN Raise("ColourFormatError",
               <<"A","l","l"," ","l","i","s","t"," ","i","t","e","m","s"," ",
                 "m","u","s","t"," ","b","e"," ","s","t","r","i","n","g","s",
                 ".">>)
    ELSE IF ~idxs.given THEN RetSeq("list", StyleAll(self, xs))
    ELSE IF BadPositions(idxs.val, xs) # {}
    THEN Raise("ListIndexOutOfRange", IndexMsg(FirstBadIndex(idxs.val, xs)))
    ELSE RetSeq("list", StyleSelected(self, xs, idxs.val))

TupleFormatter_call(self, xs, idxs) ==
    IF ~AllStr(xs)
    THEN Raise("ColourFormatError",
               <<"A","l","l"," ","t","u","p","l","e"," ","i","t","e","m","s",
                 " ","m","u","s","t"," ","b","e"," ","s","t","r","i","n","g",
                 "s",".">>)
    ELSE IF ~idxs.given THEN RetSeq("tuple", StyleAll(self, xs))
    ELSE IF BadPositions(idxs.val, xs) # {}
    THEN Raise("ListIndexOutOfRange", IndexMsg(FirstBadIndex(idxs.val, xs)))
    ELSE RetSeq("tuple", StyleSelected(self, xs, idxs.val))

\* the elements a caller puts in a list or tuple: strings, and an int
ItemPool == {StrV(<<"a">>), StrV(<<"b">>), IntV(1)}

ItemSeqs == SeqsUpTo(ItemPool, MaxLen)

\* indices=None, or a list of positions from -1 up to one past the longest
IndexArgs ==
    {Absent} \cup {Given(q) : q \in SeqsUpTo((-1)..MaxLen, MaxIdx)}

SeqStyles == {"RED", "BRIGHT"}

InvokeList ==
    /\ pc = "idle"
    /\ \E c \in SeqStyles, xs \in ItemSeqs, ix \in IndexArgs :
          /\ colour' = c
          /\ items' = xs
          /\ indices' = ix
    /\ pc' = "ready"
    /\ op' = "LIST"
    /\ UNCHANGED <<others, text, mapping, keys, values, target,
                   pool, via, drawn, fmt, targs, result>>

ExecList ==
    /\ pc = "ready"
    /\ op = "LIST"
    /\ result' = ListFormatter_call(colour, items, indices)
    /\ pc' = "done"
    /\ UNCHANGED <<args, drawn, fmt>>

InvokeTuple ==
    /\ pc = "idle"
    /\ \E c \in SeqStyles, xs \in ItemSeqs, ix \in IndexArgs :
          /\ colour' = c
          /\ items' = xs
          /\ indices' = ix
    /\ pc' = "ready"
    /\ op' = "TUPLE"
    /\ UNCHANGED <<others, text, mapping, keys, values, target,
                   pool, via, drawn, fmt, targs, result>>

ExecTuple ==
    /\ pc = "ready"
    /\ op = "TUPLE"
    /\ result' = TupleFormatter_call(colour, items, indices)
    /\ pc' = "done"
    /\ UNCHANGED <<args, drawn, fmt>>

NextSeq == InvokeList \/ ExecList \/ InvokeTuple \/ ExecTuple \/ Return

SpecSeq == Init /\ [][NextSeq]_vars

(***************************************************************************)
(* Claims about the sequence formatters (SpecSeq).                         *)
(***************************************************************************)
SeqOp == op \in {"LIST", "TUPLE"}

\* every index given lies in [0, len(items))
IndicesValid ==
    indices.given =>
        \A j \in DOMAIN indices.val :
            0 <= indices.val[j] /\ indices.val[j] < Len(items)

\* apply(style, x) for a string x, as C1 has it
Applied(style, x) == Value(style) \o x \o ResetCode

\* C4: for a sequence of strings and absent or valid indices, LIST and TUPLE
\* return a sequence (a list, a tuple) of the same length whose element i is
\* apply(style, xs[i]) if the indices are absent or hold i, and xs[i]
\* otherwise; calling with no indices gives what calling with the indices
\* 0..len(xs)-1 gives.
C4_SequenceFormat ==
    (pc = "done" /\ SeqOp /\ AllStr(items) /\ IndicesValid) =>
        /\ result.ok
        /\ result.type = (IF op = "LIST" THEN "list" ELSE "tuple")
        /\ Len(result.seq) = Len(items)
        /\ \A i \in DOMAIN items :
              result.seq[i] =
                  IF ~indices.given \/ (i - 1) \in Range(indices.val)
                  THEN Applied(colour, items[i].s)
                  ELSE items[i].s
        /\ ~indices.given =>
              LET every == Given([i \in DOMAIN items |-> i - 1])
              IN  result = IF op = "LIST"
                           THEN ListFormatter_call(colour, items, every)
                           ELSE TupleFormatter_call(colour, items, every)

\* Colour.RED.LIST(["a", "b", "a"], indices=[2, 2]) has returned
\* ["a", "b", "\033[31ma\033[0m"]
C4_Witness ==
    /\ pc = "done"
    /\ op = "LIST"
    /\ colour = "RED"
    /\ items = <<StrV(<<"a">>), StrV(<<"b">>), StrV(<<"a">>)>>
    /\ indices = Given(<<2, 2>>)
    /\ result.ok
    /\ result.seq = << <<"a">>, <<"b">>,
                       <<ESC, "[", "3", "1", "m", "a", ESC, "[", "0", "m">> >>

SomeIndexBad ==
    /\ indices.given
    /\ \E j \in DOMAIN indices.val :
          indices.val[j] < 0 \/ indices.val[j] >= Len(items)

\* C5: when LIST or TUPLE is called on a sequence of strings with indices of
\* which at least one is negative or >= len(xs), the call raises
\* ListIndexOutOfRange with the message "Index <idx> out of range." for one
\* of the bad indices, returns no sequence, and leaves xs as it was.
C5_BadIndexRejected ==
    [][ (pc = "ready" /\ SeqOp /\ AllStr(items) /\ SomeIndexBad) =>
          /\ ~result'.ok
          /\ result'.exc = "ListIndexOutOfRange"
          /\ \E j \in DOMAIN indices.val :
                /\ indices.val[j] < 0 \/ indices.val[j] >= Len(items)
                /\ result'.msg =
                      <<"I","n","d","e","x"," ">> \o IntStr(indices.val[j])
                          \o <<" ","o","u","t"," ","o","f"," ",
                               "r","a","n","g","e",".">>
          /\ result'.type = "none"
          /\ result'.seq = <<>>
          /\ items' = items ]_vars

\* Colour.RED.LIST(["a", "b"], indices=[0, 2]) has raised
\* ListIndexOutOfRange("Index 2 out of range.")
C5_Witness ==
    /\ pc = "done"
    /\ op = "LIST"
    /\ colour = "RED"
    /\ items = <<StrV(<<"a">>), StrV(<<"b">>)>>
    /\ indices = Given(<<0, 2>>)
    /\ ~result.ok
    /\ result.exc = "ListIndexOutOfRange"
    /\ result.msg =
          <<"I","n","d","e","x"," ","2"," ","o","u","t"," ","o","f"," ",
            "r","a","n","g","e",".">>

(***************************************************************************)
(* Colour._DictFormatter.__call__                                          *)
(*                                                                         *)
(* A dict is the sequence of its entries in insertion order, keys          *)
(* distinct.  The values of the caller's mappings are strings.             *)
(***************************************************************************)
Entry(k, v) == [k |-> k, v |-> v]

HasKey(d, k) == \E i \in DOMAIN d : d[i].k = k

\* d[k] = v: an existing key keeps its position and takes the new value,
\* a new key is appended
DictSet(d, k, v) ==
    IF HasKey(d, k)
    THEN [i \in DOMAIN d |-> IF d[i].k = k THEN Entry(k, v) ELSE d[i]]
    ELSE Append(d, Entry(k, v))

KeysOf(d) == [i \in DOMAIN d |-> d[i].k]
ValuesOf(d) == [i \in DOMAIN d |-> d[i].v]

\* the first element of q that is not in S
FirstMissing(q, S) ==
    q[CHOOSE j \in DOMAIN q :
        /\ q[j] \notin S
        /\ \A i \in 1..(j - 1) : q[i] \in S]

KeyMissingMsg(k) ==
    <<"K","e","y"," ","'">> \o k \o <<"'"," ","m","i","s","s","i","n","g",".">>

ValueMissingMsg(v) ==
    <<"V","a","l","u","e"," ","'">> \o v
        \o <<"'"," ","m","i","s","s","i","n","g",".">>

\* the loop of lines 256-265 over the entries not yet visited, with an empty
\* key list selecting every key
RECURSIVE DictLoop_EmptySelectsAll(_, _, _, _, _, _)
DictLoop_EmptySelectsAll(self, rest, ks, vs, tgt, out) ==
    IF rest = <<>> THEN out
    ELSE
        LET k == Head(rest).k
            v == Head(rest).v
            k_ok == ~ks.given \/ ks.val = <<>> \/ k \in Range(ks.val)
            v_ok == ~vs.given \/ v \in Range(vs.val)
            sk == IF k_ok THEN Colour_call(self, StrV(k)).str ELSE k
            sv == IF v_ok THEN Colour_call(self, StrV(v)).str ELSE v
        IN  DictLoop_EmptySelectsAll(self, Tail(rest), ks, vs, tgt,
                CASE tgt = "key" -> DictSet(out, sk, v)
                  [] tgt = "value" -> DictSet(out, k, sv)
                  [] OTHER -> DictSet(out, sk, sv))

\* the loop of lines 256-265 with the "value" branch storing the styled key
RECURSIVE DictLoop_ValueStylesKey(_, _, _, _, _, _)
DictLoop_ValueStylesKey(self, rest, ks, vs, tgt, out) ==
    IF rest = <<>> THEN out
    ELSE
        LET k == Head(rest).k
            v == Head(rest).v
            k_ok == ~ks.given \/ k \in Range(ks.val)
            v_ok == ~vs.given \/ v \in Range(vs.val)
            sk == IF k_ok THEN Colour_call(self, StrV(k)).str ELSE k
            sv == IF v_ok THEN Colour_call(self, StrV(v)).str ELSE v
        IN  DictLoop_ValueStylesKey(self, Tail(rest), ks, vs, tgt,
                CASE tgt = "key" -> DictSet(out, sk, v)
                  [] tgt = "value" -> DictSet(out, sk, sv)
                  [] OTHER -> DictSet(out, sk, sv))

\* for k, v in items.items(): ... (lines 256-265), over the entries not yet
\* visited
RECURSIVE DictLoop(_, _, _, _, _, _)
DictLoop(self, rest, ks, vs, tgt, out) ==
    IF rest = <<>> THEN out
    ELSE
        LET k == Head(rest).k
            v == Head(rest).v
            k_ok == ~ks.given \/ k \in Range(ks.val)
            v_ok == ~vs.given \/ v \in Range(vs.val)
            sk == IF k_ok THEN Colour_call(self, StrV(k)).str ELSE k
            sv == IF v_ok THEN Colour_call(self, StrV(v)).str ELSE v
        IN  DictLoop(self, Tail(rest), ks, vs, tgt,
                CASE tgt = "key" -> DictSet(out, sk, v)
                  [] tgt = "value" -> DictSet(out, k, sv)
                  [] OTHER -> DictSet(out, sk, sv))

\* the caller's mapping has entries [k |-> a Python value, v |-> a str]
DictFormatter_call(self, m, ks, vs, tgt) ==
    LET keyset == {m[i].k.s : i \in DOMAIN m}
        valset == {m[i].v : i \in DOMAIN m}
    IN
    IF \E i \in DOMAIN m : m[i].k.kind # "str"
    THEN Raise("ColourFormatError",
               <<"A","l","l"," ","k","e","y","s"," ","m","u","s","t"," ",
                 "b","e"," ","s","t","r","i","n","g","s",".">>)
    ELSE IF tgt \notin {"key", "value", "both"}
    THEN Raise("ColourFormatError",
               <<"T","a","r","g","e","t"," ","m","u","s","t"," ","b","e"," ",
                 "'","k","e","y","'",",","'","v","a","l","u","e","'",","," ",
                 "o","r"," ","'","b","o","t","h","'",".">>)
    ELSE IF ks.given /\ ks.val # <<>> /\ ~(Range(ks.val) \subseteq keyset)
    THEN Raise("DictKeyMissing", KeyMissingMsg(FirstMissing(ks.val, keyset)))
    ELSE IF vs.given /\ vs.val # <<>> /\ ~(Range(vs.val) \subseteq valset)
    THEN Raise("DictValueMissing",
               ValueMissingMsg(FirstMissing(vs.val, valset)))
    ELSE RetMap(DictLoop(self, [i \in DOMAIN m |-> Entry(m[i].k.s, m[i].v)],
                         ks, vs, tgt, <<>>))

\* the keys of a caller's mapping: plain strings, the string Colour.RED("a")
\* (a key styled before), and an int
DictKeyPool ==
    {StrV(<<"a">>), StrV(<<"b">>),
     StrV(Value("RED") \o <<"a">> \o ResetCode), IntV(1)}

DictValuePool == { <<"x">>, <<"y">> }

Mappings ==
    {d \in SeqsUpTo({Entry(k, v) : k \in DictKeyPool, v \in DictValuePool},
                    MaxEntries) :
        \A i, j \in DOMAIN d : i # j => d[i].k # d[j].k}

KeyArgs ==
    {Absent} \cup
    {Given(q) : q \in DistinctSeqsUpTo({ <<"a">>, <<"b">>, <<"z">> },
                                       MaxFilter)}

ValueArgs ==
    {Absent} \cup
    {Given(q) : q \in DistinctSeqsUpTo({ <<"x">>, <<"w">> }, MaxFilter)}

TargetArgs == {"key", "value", "both", "keys"}

DictStyles == {"RED", "BRIGHT"}

InvokeDict ==
    /\ pc = "idle"
    /\ \E c \in DictStyles, d \in Mappings, ks \in KeyArgs, vs \in ValueArgs,
          t \in TargetArgs :
          /\ colour' = c
          /\ mapping' = d
          /\ keys' = ks
          /\ values' = vs
          /\ target' = t
    /\ pc' = "ready"
    /\ op' = "DICT"
    /\ UNCHANGED <<others, text, items, indices,
                   pool, via, drawn, fmt, targs, result>>

ExecDict ==
    /\ pc = "ready"
    /\ op = "DICT"
    /\ result' = DictFormatter_call(colour, mapping, keys, values, target)
    /\ pc' = "done"
    /\ UNCHANGED <<args, drawn, fmt>>

NextDict == InvokeDict \/ ExecDict \/ Return

SpecDict == Init /\ [][NextDict]_vars

(***************************************************************************)
(* Claims about the mapping formatter (SpecDict).                          *)
(***************************************************************************)
InputKeys == [i \in DOMAIN mapping |-> mapping[i].k.s]
InputValues == [i \in DOMAIN mapping |-> mapping[i].v]

\* string keys, one of the three targets, and filters that name only keys and
\* values the mapping has
DictArgsValid ==
    /\ \A i \in DOMAIN mapping : mapping[i].k.kind = "str"
    /\ target \in {"key", "value", "both"}
    /\ keys.given => Range(keys.val) \subseteq Range(InputKeys)
    /\ values.given => Range(values.val) \subseteq Range(InputValues)

DictDone == pc = "done" /\ op = "DICT"

\* the selection rule of the specification
KeySelected(k) == ~keys.given \/ k \in Range(keys.val)
ValueSelected(v) == ~values.given \/ v \in Range(values.val)

\* the key and the value the rule gives entry i in the output
KeyOut(i) ==
    IF target \in {"key", "both"} /\ KeySelected(InputKeys[i])
    THEN Applied(colour, InputKeys[i]) ELSE InputKeys[i]

ValueOut(i) ==
    IF target \in {"value", "both"} /\ ValueSelected(InputValues[i])
    THEN Applied(colour, InputValues[i]) ELSE InputValues[i]

\* q without the later occurrences of an element
FirstOccurrences(q) ==
    LET keep == {i \in DOMAIN q : \A j \in 1..(i - 1) : q[j] # q[i]}
        pos(n) == CHOOSE i \in keep : Cardinality({j \in keep : j <= i}) = n
    IN  [n \in 1..Cardinality(keep) |-> q[pos(n)]]

\* C6 as stated: for every valid call the key sequence of the returned
\* mapping is identical to that of the input mapping.
C6_KeysIdentical ==
    (DictDone /\ DictArgsValid) =>
        /\ result.ok
        /\ KeysOf(result.map) = InputKeys

\* C6 as amended: for every valid call with target 'value' the key sequence
\* of the returned mapping is identical to that of the input mapping; with
\* target 'key' or 'both' it is the input key sequence with every
\* key-selected key replaced by its styled form apply(style, k), in the same
\* order, a key that occurs twice after the replacement being kept once, at
\* its first position.
C6_KeySequence ==
    (DictDone /\ DictArgsValid) =>
        /\ result.ok
        /\ result.type = "dict"
        /\ target = "value" => KeysOf(result.map) = InputKeys
        /\ target \in {"key", "both"} =>
              KeysOf(result.map) =
                  FirstOccurrences(
                      [i \in DOMAIN mapping |->
                          IF KeySelected(InputKeys[i])
                          THEN Applied(colour, InputKeys[i])
                          ELSE InputKeys[i]])

\* Colour.RED.DICT({"a": "x", "b": "y"}, keys=["a"], target="key") has
\* returned a mapping with the keys "\033[31ma\033[0m", "b"
C6_Witness ==
    /\ DictDone
    /\ colour = "RED"
    /\ mapping = <<Entry(StrV(<<"a">>), <<"x">>), Entry(StrV(<<"b">>), <<"y">>)>>
    /\ keys = Given(<< <<"a">> >>)
    /\ ~values.given
    /\ target = "key"
    /\ result.ok
    /\ KeysOf(result.map) =
          << <<ESC, "[", "3", "1", "m", "a", ESC, "[", "0", "m">>, <<"b">> >>

RECURSIVE StoreAll(_, _)
StoreAll(es, out) ==
    IF es = <<>> THEN out
    ELSE StoreAll(Tail(es), DictSet(out, Head(es).k, Head(es).v))

C8_ValuesOfListedKeys ==
    (DictDone /\ DictArgsValid /\ keys.given /\ keys.val # <<>>
        /\ ~values.given /\ target = "value") =>
        /\ result.ok
        /\ result.map =
              [i \in DOMAIN mapping |->
                  Entry(InputKeys[i],
                        IF InputKeys[i] \in Range(keys.val)
                        THEN Applied(colour, InputValues[i])
                        ELSE InputValues[i])]

(***************************************************************************)
(* Colour.TARGET and Colour._TargetFormatter                               *)
(***************************************************************************)
\* _TargetFormatter.__init__: self.targets = set(str(t) for t in targets)
TargetFormatter_init(c, lits) ==
    [made |-> TRUE, colour |-> c,
     targets |-> {PyStr(lits[i]) : i \in DOMAIN lits}]

\* a character styled when it occurs inside some target literal
TargetFormatter_call_Substring(f, v) ==
    LET s == PyStr(v)
    IN  RetStr(Flatten([i \in DOMAIN s |->
                    IF \E t \in f.targets : \E j \in DOMAIN t : t[j] = s[i]
                    THEN Value(f.colour) \o <<s[i]>> \o ResetCode
                    ELSE <<s[i]>>]))

\* _TargetFormatter.__call__
TargetFormatter_call(f, v) ==
    LET s == PyStr(v)
    IN  RetStr(Flatten([i \in DOMAIN s |->
                    IF <<s[i]>> \in f.targets
                    THEN Value(f.colour) \o <<s[i]>> \o ResetCode
                    ELSE <<s[i]>>]))

\* what Colour.X.TARGET(...) hands back: the formatter object
RetFormatter == Outcome(TRUE, "", <<>>, "formatter", <<>>, <<>>, <<>>)

TargetStyles == {"RED", "BRIGHT"}

\* the literals given to TARGET: single characters, a two-character literal
\* and an int
TargetLits ==
    {StrV(<<"A">>), StrV(<<"a">>), StrV(<<"1">>), StrV(<<"A", "a">>), IntV(1)}

TargetTexts ==
    {StrV(s) : s \in SeqsUpTo({"A", "a", "1", "b"}, MaxText)}
        \cup {IntV(1), IntV(11), IntV(12)}

InvokeTarget ==
    /\ pc = "idle"
    /\ \E c \in TargetStyles, lits \in SeqsUpTo(TargetLits, MaxTargets) :
          targs' = [colour |-> c, lits |-> lits]
    /\ pc' = "ready"
    /\ op' = "TARGET"
    /\ UNCHANGED <<colour, others, text, items, indices, mapping, keys,
                   values, target, pool, via, drawn, fmt, result>>

ExecTarget ==
    /\ pc = "ready"
    /\ op = "TARGET"
    /\ fmt' = TargetFormatter_init(targs.colour, targs.lits)
    /\ result' = RetFormatter
    /\ pc' = "done"
    /\ UNCHANGED <<args, drawn>>

InvokeTargetCall ==
    /\ pc = "idle"
    /\ fmt.made
    /\ \E v \in TargetTexts : text' = v
    /\ pc' = "ready"
    /\ op' = "target_call"
    /\ UNCHANGED <<colour, others, items, indices, mapping, keys, values,
                   target, pool, via, drawn, fmt, targs, result>>

ExecTargetCall ==
    /\ pc = "ready"
    /\ op = "target_call"
    /\ result' = TargetFormatter_call(fmt, text)
    /\ pc' = "done"
    /\ UNCHANGED <<args, drawn, fmt>>

NextTarget ==
    InvokeTarget \/ ExecTarget \/ InvokeTargetCall \/ ExecTargetCall \/ Return

SpecTarget == Init /\ [][NextTarget]_vars

(***************************************************************************)
(* Claims about the target formatter (SpecTarget).                         *)
(***************************************************************************)
\* the target set the caller asked for: the literals it gave, as strings
AskedTargets == {PyStr(targs.lits[i]) : i \in DOMAIN targs.lits}

RECURSIVE WrapEach(_, _, _)
WrapEach(t, style, set) ==
    IF t = <<>> THEN <<>>
    ELSE (IF <<Head(t)>> \in set THEN Applied(style, <<Head(t)>>)
          ELSE <<Head(t)>>) \o WrapEach(Tail(t), style, set)

\* C9: for every style, target literals and input string t, the formatter
\* built by TARGET returns the concatenation, over each character c of t in
\* order, of code(style) + c + reset if c is one of the target literals and
\* of c alone otherwise; a literal of several characters styles nothing; and
\* at every application the formatter holds the style and the target set it
\* was built with.
C9_TargetFormat ==
    (pc = "done" /\ op = "target_call" /\ text.kind = "str") =>
        /\ result = RetStr(WrapEach(text.s, targs.colour, AskedTargets))
        /\ (\A t \in AskedTargets : Len(t) # 1) => result.str = text.s
        /\ fmt = [made |-> TRUE, colour |-> targs.colour,
                  targets |-> AskedTargets]

\* Colour.RED.TARGET("A", "1")("A1b") has returned
\* "\033[31mA\033[0m\033[31m1\033[0mb"
C9_Witness ==
    /\ pc = "done"
    /\ op = "target_call"
    /\ targs = [colour |-> "RED", lits |-> <<StrV(<<"A">>), StrV(<<"1">>)>>]
    /\ text = StrV(<<"A", "1", "b">>)
    /\ result.str =
          <<ESC, "[", "3", "1", "m", "A", ESC, "[", "0", "m",
            ESC, "[", "3", "1", "m", "1", ESC, "[", "0", "m", "b">>

(***************************************************************************)
(* Colour.get_supported_colours, Colour.RANDOM and _RandomFormatter        *)
(***************************************************************************)
\* skip = {'BRIGHT', 'DIM', 'NORMAL', 'RESET', 'RANDOMISE'}
Skip == {"BRIGHT", "DIM", "NORMAL", "RESET", "RANDOMISE"}

\* get_supported_colours('member'): the members in declaration order whose
\* name is not skipped
SupportedMembers == SelectSeq(Members, LAMBDA n : n \notin Skip)

\* the names bound in the body of class Colour besides its members; the
\* class _RandomFormatter is not among them: line 268 is indented into the
\* body of _DictFormatter
ColourAttrs ==
    {"__call__", "get_supported_colours", "styled", "LIST", "TUPLE", "DICT",
     "RANDOM", "TARGET", "USAGE_DETAIL", "_TargetFormatter", "_ListFormatter",
     "_TupleFormatter", "_DictFormatter", "_RandomiseFormater"}

\* the names bound in the body of class Colour._DictFormatter
DictFormatterAttrs == {"__init__", "__call__", "_RandomFormatter"}

\* the property Colour.RANDOM: return Colour._RandomFormatter()
Colour_RANDOM(self) ==
    IF "_RandomFormatter" \notin ColourAttrs
    THEN Raise("AttributeError",
               <<"t","y","p","e"," ","o","b","j","e","c","t"," ","'","C","o","l",
               "o","u","r","'"," ","h","a","s"," ","n","o"," ","a","t","t","r",
               "i","b","u","t","e"," ","'","_","R","a","n","d","o","m","F","o",
               "r","m","a","t","t","e","r","'">>)
    ELSE Raise("TypeError",
               <<"C","o","l","o","u","r",".","_","R","a","n","d","o","m","F","o",
               "r","m","a","t","t","e","r",".","_","_","i","n","i","t","_","_",
               "(",")"," ","m","i","s","s","i","n","g"," ","1"," ","r","e","q",
               "u","i","r","e","d"," ","p","o","s","i","t","i","o","n","a","l",
               " ","a","r","g","u","m","e","n","t",":"," ","'","C","o","l","o",
               "u","r","'">>)

\* pool or self._pool: the sequence random.choice draws from
PickFrom(c) ==
    IF c.given /\ c.val # <<>> THEN c.val ELSE SupportedMembers

\* the expressions a caller reaches a variant by: "property" is
\* Colour.X.RANDOM.<variant>(...), "class" is
\* Colour._DictFormatter._RandomFormatter(Colour).<variant>(...)
Vias == {"property", "class"}

PoolStyles == {"RED", "BRIGHT"}

PoolArgs == {Absent} \cup {Given(q) : q \in SeqsUpTo(PoolStyles, MaxPool)}

RandomTexts ==
    {StrV(<<"a">>), StrV(<<>>), IntV(7), BoolV(TRUE), NoneV,
     ListV(<< <<"a">> >>)}

RandomItemSeqs == SeqsUpTo(ItemPool, MaxRand)

RandomIndexArgs ==
    {Absent, Given(<<>>)} \cup {Given(<<i>>) : i \in (-1)..MaxRand}

RandomMappings ==
    {d \in SeqsUpTo({Entry(k, <<"x">>) :
                        k \in {StrV(<<"a">>), StrV(<<"b">>), IntV(1)}},
                    MaxRand) :
        \A i, j \in DOMAIN d : i # j => d[i].k # d[j].k}

RandomKeyArgs == {Absent, Given(<<>>), Given(<< <<"a">> >>), Given(<< <<"z">> >>)}

RandomValueArgs == {Absent, Given(<< <<"x">> >>), Given(<< <<"w">> >>)}

\* SINGLE, __call__ and RANDOM all come to self.pick(c)(v)
ScalarVariants == {"RANDOM.SINGLE", "RANDOM.__call__", "RANDOM.RANDOM"}

InvokeRandomSingle ==
    /\ pc = "idle"
    /\ \E w \in Vias, name \in ScalarVariants, v \in RandomTexts,
          c \in PoolArgs :
          /\ via' = w
          /\ op' = name
          /\ text' = v
          /\ pool' = c
          /\ colour' = IF w = "property" THEN "RED" ELSE "none"
    /\ pc' = "ready"
    /\ UNCHANGED <<others, items, indices, mapping, keys, values, target,
                   drawn, fmt, targs, result>>

ExecRandomSingle ==
    /\ pc = "ready"
    /\ op \in ScalarVariants
    /\ \/ /\ via = "property"
          /\ result' = Colour_RANDOM(colour)
          /\ drawn' = drawn
       \/ /\ via = "class"
          /\ \E s \in Range(PickFrom(pool)) :
                /\ drawn' = s
                /\ result' = Colour_call(s, text)
    /\ pc' = "done"
    /\ UNCHANGED <<args, fmt>>

InvokeRandomList ==
    /\ pc = "idle"
    /\ \E w \in Vias, xs \in RandomItemSeqs, ix \in RandomIndexArgs,
          c \in PoolArgs :
          /\ via' = w
          /\ items' = xs
          /\ indices' = ix
          /\ pool' = c
          /\ colour' = IF w = "property" THEN "RED" ELSE "none"
    /\ pc' = "ready"
    /\ op' = "RANDOM.LIST"
    /\ UNCHANGED <<others, text, mapping, keys, values, target,
                   drawn, fmt, targs, result>>

ExecRandomList ==
    /\ pc = "ready"
    /\ op = "RANDOM.LIST"
    /\ \/ /\ via = "property"
          /\ result' = Colour_RANDOM(colour)
          /\ drawn' = drawn
       \/ /\ via = "class"
          /\ \E s \in Range(PickFrom(pool)) :
                /\ drawn' = s
                /\ result' = ListFormatter_call(s, items, indices)
    /\ pc' = "done"
    /\ UNCHANGED <<args, fmt>>

InvokeRandomTuple ==
    /\ pc = "idle"
    /\ \E w \in Vias, xs \in RandomItemSeqs, ix \in RandomIndexArgs,
          c \in PoolArgs :
          /\ via' = w
          /\ items' = xs
          /\ indices' = ix
          /\ pool' = c
          /\ colour' = IF w = "property" THEN "RED" ELSE "none"
    /\ pc' = "ready"
    /\ op' = "RANDOM.TUPLE"
    /\ UNCHANGED <<others, text, mapping, keys, values, target,
                   drawn, fmt, targs, result>>

ExecRandomTuple ==
    /\ pc = "ready"
    /\ op = "RANDOM.TUPLE"
    /\ \/ /\ via = "property"
          /\ result' = Colour_RANDOM(colour)
          /\ drawn' = drawn
       \/ /\ via = "class"
          /\ \E s \in Range(PickFrom(pool)) :
                /\ drawn' = s
                /\ result' = TupleFormatter_call(s, items, indices)
    /\ pc' = "done"
    /\ UNCHANGED <<args, fmt>>

InvokeRandomDict ==
    /\ pc = "idle"
    /\ \E w \in Vias, d \in RandomMappings, ks \in RandomKeyArgs,
          vs \in RandomValueArgs, t \in TargetArgs, c \in PoolArgs :
          /\ via' = w
          /\ mapping' = d
          /\ keys' = ks
          /\ values' = vs
          /\ target' = t
          /\ pool' = c
          /\ colour' = IF w = "property" THEN "RED" ELSE "none"
    /\ pc' = "ready"
    /\ op' = "RANDOM.DICT"
    /\ UNCHANGED <<others, text, items, indices, drawn, fmt, targs, result>>

ExecRandomDict ==
    /\ pc = "ready"
    /\ op = "RANDOM.DICT"
    /\ \/ /\ via = "property"
          /\ result' = Colour_RANDOM(colour)
          /\ drawn' = drawn
       \/ /\ via = "class"
          /\ \E s \in Range(PickFrom(pool)) :
                /\ drawn' = s
                /\ result' = DictFormatter_call(s, mapping, keys, values,
                                                target)
    /\ pc' = "done"
    /\ UNCHANGED <<args, fmt>>

NextRandom ==
    \/ InvokeRandomSingle \/ ExecRandomSingle
    \/ InvokeRandomList \/ ExecRandomList
    \/ InvokeRandomTuple \/ ExecRandomTuple
    \/ InvokeRandomDict \/ ExecRandomDict
    \/ Return

SpecRandom == Init /\ [][NextRandom]_vars

(***************************************************************************)
(* Claims about the random formatter (SpecRandom).                         *)
(***************************************************************************)
RandomDone ==
    /\ pc = "done"
    /\ op \in ScalarVariants \cup {"RANDOM.LIST", "RANDOM.TUPLE", "RANDOM.DICT"}

\* the pool the specification draws from: the explicit pool if supplied,
\* otherwise the catalogue without the four pseudo-styles
StatedPool ==
    IF pool.given THEN Range(pool.val)
    ELSE Styles \ {"BRIGHT", "DIM", "NORMAL", "RESET"}

\* what the fixed-style formatter of style s returns on the same arguments
FixedStyle(s) ==
    CASE op \in ScalarVariants -> Colour_call(s, text)
      [] op = "RANDOM.LIST" -> ListFormatter_call(s, items, indices)
      [] op = "RANDOM.TUPLE" -> TupleFormatter_call(s, items, indices)
      [] op = "RANDOM.DICT" ->
            DictFormatter_call(s, mapping, keys, values, target)

\* C10: every top-level call of a random formatter variant (scalar, LIST,
\* TUPLE, DICT), by whichever expression the module offers for it, with no
\* pool or a non-empty pool, ends as the fixed-style formatter of one single
\* style s of the pool ends on the same arguments, validation failures
\* included; with a one-element pool it ends as that element's formatter
\* does.
C10_OneDrawPerCall ==
    (RandomDone /\ ~(pool.given /\ pool.val = <<>>)) =>
        /\ \E s \in StatedPool : result = FixedStyle(s)
        /\ (pool.given /\ Len(pool.val) = 1) => result = FixedStyle(pool.val[1])

\* Reached as Colour._DictFormatter._RandomFormatter(Colour), with no pool or
\* a non-empty one, a variant does end as the fixed-style formatter of the
\* one style it drew, a member of the pool.
RandomClassPathOneDraw ==
    (RandomDone /\ via = "class" /\ ~(pool.given /\ pool.val = <<>>)) =>
        /\ drawn \in StatedPool
        /\ result = FixedStyle(drawn)

\* Colour.RED.DICT({"a": "x", "\033[31ma\033[0m": "y"}, keys=["a"],
\* target="key") has returned the one entry {"\033[31ma\033[0m": "y"}
StyledKeyCollides ==
    /\ DictDone
    /\ colour = "RED"
    /\ mapping = <<Entry(StrV(<<"a">>), <<"x">>),
                   Entry(StrV(Applied("RED", <<"a">>)), <<"y">>)>>
    /\ keys = Given(<< <<"a">> >>)
    /\ target = "key"
    /\ result.map = <<Entry(Applied("RED", <<"a">>), <<"y">>)>>

\* C11: when a random formatter variant is called with an explicit pool, the
\* style it draws is a member of that pool; when the pool given is empty the
\* call raises the empty-pool error, draws no style and returns no styled
\* output.  (Stated of the variants reached as
\* Colour._DictFormatter._RandomFormatter(Colour), where a draw takes place.)
C11_ExplicitPoolOnly ==
    (RandomDone /\ via = "class" /\ pool.given) =>
        /\ pool.val # <<>> => drawn \in Range(pool.val)
        /\ pool.val = <<>> =>
              /\ ~result.ok
              /\ result.exc = "EmptyPoolError"
              /\ drawn = "none"
              /\ ~Returned(result)

\* _RandomFormatter(Colour).SINGLE("a", c=[]) has returned "a" in a style
\* drawn from the catalogue
EmptyPoolFallsBack ==
    /\ RandomDone
    /\ via = "class"
    /\ op = "RANDOM.SINGLE"
    /\ pool = Given(<<>>)
    /\ text = StrV(<<"a">>)
    /\ drawn = "GREEN"
    /\ result = RetStr(<<ESC, "[", "3", "2", "m", "a", ESC, "[", "0", "m">>)

\* with a non-empty explicit pool the style drawn is a member of that pool
NonEmptyPoolRespected ==
    (RandomDone /\ via = "class" /\ pool.given /\ pool.val # <<>>) =>
        drawn \in Range(pool.val)

====
